---------------------------- MODULE Spec2Model ----------------------------
(***************************************************************************)
(* A model of the rubric-scoring engine of src/scorer.py: the             *)
(* IntroductionScorer instance built for one transcript and duration, its  *)
(* eight scorers and the aggregator calculate_overall_score.               *)
(*                                                                         *)
(* Strings are sequences of one-character strings, so that substring       *)
(* search, lowercasing and the regular expressions are computed on         *)
(* characters.  Numbers that the code holds as floats are exact rationals  *)
(* [num, den] here (ratios are compared by cross-multiplication); cosine   *)
(* similarities and the sentiment compound are integers in hundredths.     *)
(* The external models (spaCy, the sentence encoder, LanguageTool, VADER)  *)
(* are state: what each returns for this transcript, or that it raises.    *)
(***************************************************************************)
EXTENDS Integers, Sequences, FiniteSets, TLC

VARIABLES
    audio_duration_sec,  \* constructor argument: [given, sec]
    text,                \* self.text: the transcript, a sequence of characters
    doc,                 \* self.doc: the tokens spaCy returns for text
    sentences,           \* self.sentences
    words,               \* self.words
    total_words,         \* self.total_words
    provided_duration,   \* self.provided_duration (seconds)
    duration_min,        \* self.duration_min, the rational [num, den]
    sbert_model,         \* the encoder's answers for this transcript
    grammar_tool,        \* LanguageTool's answer for this transcript
    sentiment_analyzer,  \* VADER's answer for this transcript
    call,                \* the method the caller invoked on the instance
    pc,                  \* the statement about to run
    locals,              \* (s_x, f_x) of the scorers that have returned
    invoked,             \* how many times each scorer has been entered
    report               \* the value calculate_overall_score returned

vars == <<audio_duration_sec, text, doc, sentences, words, total_words,
          provided_duration, duration_min, sbert_model, grammar_tool,
          sentiment_analyzer, call, pc, locals, invoked, report>>

instance == <<audio_duration_sec, text, doc, sentences, words, total_words,
              provided_duration, duration_min, sbert_model, grammar_tool,
              sentiment_analyzer, call>>

----------------------------------------------------------------------------
(* Bounds of the model.                                                    *)

MaxFragments == 3
MaxWords == 165
MaxSentences == 3
MaxParts == 2

----------------------------------------------------------------------------
(* Strings.                                                                *)

\*CHARS-BEGIN
Chars ==
    "   - " :> <<" ", " ", " ", "-", " ">>
    @@ " (" :> <<" ", "(">>
    @@ " (Context: '..." :> <<" ", "(", "C", "o", "n", "t", "e", "x", "t", ":", " ", "'", ".", ".", ".">>
    @@ " (Score: " :> <<" ", "(", "S", "c", "o", "r", "e", ":", " ">>
    @@ " (Sentiment: " :> <<" ", "(", "S", "e", "n", "t", "i", "m", "e", "n", "t", ":", " ">>
    @@ " (TTR: " :> <<" ", "(", "T", "T", "R", ":", " ">>
    @@ " WPM)" :> <<" ", "W", "P", "M", ")">>
    @@ " fillers)" :> <<" ", "f", "i", "l", "l", "e", "r", "s", ")">>
    @@ " found):" :> <<" ", "f", "o", "u", "n", "d", ")", ":">>
    @@ "!" :> <<"!">>
    @@ "'" :> <<"'">>
    @@ "(Indices: Sal=" :> <<"(", "I", "n", "d", "i", "c", "e", "s", ":", " ", "S", "a", "l", "=">>
    @@ ")" :> <<")">>
    @@ ", " :> <<",", " ">>
    @@ ", End=" :> <<",", " ", "E", "n", "d", "=">>
    @@ ", Intro=" :> <<",", " ", "I", "n", "t", "r", "o", "=">>
    @@ "-" :> <<"-">>
    @@ "." :> <<".">>
    @@ "...')" :> <<".", ".", ".", "'", ")">>
    @@ "/10)" :> <<"/", "1", "0", ")">>
    @@ "Acceptable" :> <<"A", "c", "c", "e", "p", "t", "a", "b", "l", "e">>
    @@ "Acceptable (140 WPM)" :> <<"A", "c", "c", "e", "p", "t", "a", "b", "l", "e", " ", "(", "1", "4", "0", " ", "W", "P", "M", ")">>
    @@ "Acceptable (150 WPM)" :> <<"A", "c", "c", "e", "p", "t", "a", "b", "l", "e", " ", "(", "1", "5", "0", " ", "W", "P", "M", ")">>
    @@ "Acceptable Flow" :> <<"A", "c", "c", "e", "p", "t", "a", "b", "l", "e", " ", "F", "l", "o", "w">>
    @@ "Achievements" :> <<"A", "c", "h", "i", "e", "v", "e", "m", "e", "n", "t", "s">>
    @@ "Age" :> <<"A", "g", "e">>
    @@ "Alex" :> <<"A", "l", "e", "x">>
    @@ "Ambition" :> <<"A", "m", "b", "i", "t", "i", "o", "n">>
    @@ "Average" :> <<"A", "v", "e", "r", "a", "g", "e">>
    @@ "Average variety" :> <<"A", "v", "e", "r", "a", "g", "e", " ", "v", "a", "r", "i", "e", "t", "y">>
    @@ "Basic salutation used (Hi/Hello). Try to be more formal." :> <<"B", "a", "s", "i", "c", " ", "s", "a", "l", "u", "t", "a", "t", "i", "o", "n", " ", "u", "s", "e", "d", " ", "(", "H", "i", "/", "H", "e", "l", "l", "o", ")", ".", " ", "T", "r", "y", " ", "t", "o", " ", "b", "e", " ", "m", "o", "r", "e", " ", "f", "o", "r", "m", "a", "l", ".">>
    @@ "Clear speech" :> <<"C", "l", "e", "a", "r", " ", "s", "p", "e", "e", "c", "h">>
    @@ "Clear speech (0 fillers)" :> <<"C", "l", "e", "a", "r", " ", "s", "p", "e", "e", "c", "h", " ", "(", "0", " ", "f", "i", "l", "l", "e", "r", "s", ")">>
    @@ "Delhi" :> <<"D", "e", "l", "h", "i">>
    @@ "Did you mean Thank-you?" :> <<"D", "i", "d", " ", "y", "o", "u", " ", "m", "e", "a", "n", " ", "T", "h", "a", "n", "k", "-", "y", "o", "u", "?">>
    @@ "Disordered: Introduction and Closing are detected in same sentence." :> <<"D", "i", "s", "o", "r", "d", "e", "r", "e", "d", ":", " ", "I", "n", "t", "r", "o", "d", "u", "c", "t", "i", "o", "n", " ", "a", "n", "d", " ", "C", "l", "o", "s", "i", "n", "g", " ", "a", "r", "e", " ", "d", "e", "t", "e", "c", "t", "e", "d", " ", "i", "n", " ", "s", "a", "m", "e", " ", "s", "e", "n", "t", "e", "n", "c", "e", ".">>
    @@ "Disordered: Introduction and Closing are detected in same sentence. " :> <<"D", "i", "s", "o", "r", "d", "e", "r", "e", "d", ":", " ", "I", "n", "t", "r", "o", "d", "u", "c", "t", "i", "o", "n", " ", "a", "n", "d", " ", "C", "l", "o", "s", "i", "n", "g", " ", "a", "r", "e", " ", "d", "e", "t", "e", "c", "t", "e", "d", " ", "i", "n", " ", "s", "a", "m", "e", " ", "s", "e", "n", "t", "e", "n", "c", "e", ".", " ">>
    @@ "Distracted by fillers" :> <<"D", "i", "s", "t", "r", "a", "c", "t", "e", "d", " ", "b", "y", " ", "f", "i", "l", "l", "e", "r", "s">>
    @@ "Duration not provided (Assumed Ideal)" :> <<"D", "u", "r", "a", "t", "i", "o", "n", " ", "n", "o", "t", " ", "p", "r", "o", "v", "i", "d", "e", "d", " ", "(", "A", "s", "s", "u", "m", "e", "d", " ", "I", "d", "e", "a", "l", ")">>
    @@ "EN_A_VS_AN" :> <<"E", "N", "_", "A", "_", "V", "S", "_", "A", "N">>
    @@ "EN_COMPOUNDS" :> <<"E", "N", "_", "C", "O", "M", "P", "O", "U", "N", "D", "S">>
    @@ "Error during grammar check:" :> <<"E", "r", "r", "o", "r", " ", "d", "u", "r", "i", "n", "g", " ", "g", "r", "a", "m", "m", "a", "r", " ", "c", "h", "e", "c", "k", ":">>
    @@ "Error during grammar check: " :> <<"E", "r", "r", "o", "r", " ", "d", "u", "r", "i", "n", "g", " ", "g", "r", "a", "m", "m", "a", "r", " ", "c", "h", "e", "c", "k", ":", " ">>
    @@ "Excellent salutation used: '" :> <<"E", "x", "c", "e", "l", "l", "e", "n", "t", " ", "s", "a", "l", "u", "t", "a", "t", "i", "o", "n", " ", "u", "s", "e", "d", ":", " ", "'">>
    @@ "Excellent salutation used: 'pleasure to introduce'" :> <<"E", "x", "c", "e", "l", "l", "e", "n", "t", " ", "s", "a", "l", "u", "t", "a", "t", "i", "o", "n", " ", "u", "s", "e", "d", ":", " ", "'", "p", "l", "e", "a", "s", "u", "r", "e", " ", "t", "o", " ", "i", "n", "t", "r", "o", "d", "u", "c", "e", "'">>
    @@ "Excellent variety" :> <<"E", "x", "c", "e", "l", "l", "e", "n", "t", " ", "v", "a", "r", "i", "e", "t", "y">>
    @@ "Family" :> <<"F", "a", "m", "i", "l", "y">>
    @@ "Feeling" :> <<"F", "e", "e", "l", "i", "n", "g">>
    @@ "Flawless" :> <<"F", "l", "a", "w", "l", "e", "s", "s">>
    @@ "Flow disordered" :> <<"F", "l", "o", "w", " ", "d", "i", "s", "o", "r", "d", "e", "r", "e", "d">>
    @@ "Flow disordered. " :> <<"F", "l", "o", "w", " ", "d", "i", "s", "o", "r", "d", "e", "r", "e", "d", ".", " ">>
    @@ "Flow disordered. (Indices: Sal=1, Intro=0, End=X)" :> <<"F", "l", "o", "w", " ", "d", "i", "s", "o", "r", "d", "e", "r", "e", "d", ".", " ", "(", "I", "n", "d", "i", "c", "e", "s", ":", " ", "S", "a", "l", "=", "1", ",", " ", "I", "n", "t", "r", "o", "=", "0", ",", " ", "E", "n", "d", "=", "X", ")">>
    @@ "Good" :> <<"G", "o", "o", "d">>
    @@ "Good Flow" :> <<"G", "o", "o", "d", " ", "F", "l", "o", "w">>
    @@ "Good Flow (Short body)" :> <<"G", "o", "o", "d", " ", "F", "l", "o", "w", " ", "(", "S", "h", "o", "r", "t", " ", "b", "o", "d", "y", ")">>
    @@ "Good salutation used: '" :> <<"G", "o", "o", "d", " ", "s", "a", "l", "u", "t", "a", "t", "i", "o", "n", " ", "u", "s", "e", "d", ":", " ", "'">>
    @@ "Good variety" :> <<"G", "o", "o", "d", " ", "v", "a", "r", "i", "e", "t", "y">>
    @@ "Greetings" :> <<"G", "r", "e", "e", "t", "i", "n", "g", "s">>
    @@ "Hello" :> <<"H", "e", "l", "l", "o">>
    @@ "Hesitant" :> <<"H", "e", "s", "i", "t", "a", "n", "t">>
    @@ "Hi" :> <<"H", "i">>
    @@ "Hobbies" :> <<"H", "o", "b", "b", "i", "e", "s">>
    @@ "I" :> <<"I">>
    @@ "Ideal" :> <<"I", "d", "e", "a", "l">>
    @@ "Ideal (125 WPM)" :> <<"I", "d", "e", "a", "l", " ", "(", "1", "2", "5", " ", "W", "P", "M", ")">>
    @@ "Indices: Sal=" :> <<"I", "n", "d", "i", "c", "e", "s", ":", " ", "S", "a", "l", "=">>
    @@ "Issue" :> <<"I", "s", "s", "u", "e">>
    @@ "LanguageTool is not reachable" :> <<"L", "a", "n", "g", "u", "a", "g", "e", "T", "o", "o", "l", " ", "i", "s", " ", "n", "o", "t", " ", "r", "e", "a", "c", "h", "a", "b", "l", "e">>
    @@ "MORFOLOGIK_RULE_EN_US" :> <<"M", "O", "R", "F", "O", "L", "O", "G", "I", "K", "_", "R", "U", "L", "E", "_", "E", "N", "_", "U", "S">>
    @@ "Morning" :> <<"M", "o", "r", "n", "i", "n", "g">>
    @@ "Mostly clear" :> <<"M", "o", "s", "t", "l", "y", " ", "c", "l", "e", "a", "r">>
    @@ "My" :> <<"M", "y">>
    @@ "NOTE: Spelling, hyphens, punctuation, and style ignored." :> <<"N", "O", "T", "E", ":", " ", "S", "p", "e", "l", "l", "i", "n", "g", ",", " ", "h", "y", "p", "h", "e", "n", "s", ",", " ", "p", "u", "n", "c", "t", "u", "a", "t", "i", "o", "n", ",", " ", "a", "n", "d", " ", "s", "t", "y", "l", "e", " ", "i", "g", "n", "o", "r", "e", "d", ".">>
    @@ "Name" :> <<"N", "a", "m", "e">>
    @@ "Needs Improvement" :> <<"N", "e", "e", "d", "s", " ", "I", "m", "p", "r", "o", "v", "e", "m", "e", "n", "t">>
    @@ "Negative" :> <<"N", "e", "g", "a", "t", "i", "v", "e">>
    @@ "Neutral" :> <<"N", "e", "u", "t", "r", "a", "l">>
    @@ "No salutation found." :> <<"N", "o", " ", "s", "a", "l", "u", "t", "a", "t", "i", "o", "n", " ", "f", "o", "u", "n", "d", ".">>
    @@ "No text" :> <<"N", "o", " ", "t", "e", "x", "t">>
    @@ "Origin" :> <<"O", "r", "i", "g", "i", "n">>
    @@ "Perfect Flow" :> <<"P", "e", "r", "f", "e", "c", "t", " ", "F", "l", "o", "w">>
    @@ "Poor" :> <<"P", "o", "o", "r">>
    @@ "Poor Pacing" :> <<"P", "o", "o", "r", " ", "P", "a", "c", "i", "n", "g">>
    @@ "Positive" :> <<"P", "o", "s", "i", "t", "i", "v", "e">>
    @@ "Positive (Sentiment: 0.88)" :> <<"P", "o", "s", "i", "t", "i", "v", "e", " ", "(", "S", "e", "n", "t", "i", "m", "e", "n", "t", ":", " ", "0", ".", "8", "8", ")">>
    @@ "Possible spelling mistake found." :> <<"P", "o", "s", "s", "i", "b", "l", "e", " ", "s", "p", "e", "l", "l", "i", "n", "g", " ", "m", "i", "s", "t", "a", "k", "e", " ", "f", "o", "u", "n", "d", ".">>
    @@ "Repetitive" :> <<"R", "e", "p", "e", "t", "i", "t", "i", "v", "e">>
    @@ "School" :> <<"S", "c", "h", "o", "o", "l">>
    @@ "Slightly Negative" :> <<"S", "l", "i", "g", "h", "t", "l", "y", " ", "N", "e", "g", "a", "t", "i", "v", "e">>
    @@ "Some hesitation" :> <<"S", "o", "m", "e", " ", "h", "e", "s", "i", "t", "a", "t", "i", "o", "n">>
    @@ "Strength" :> <<"S", "t", "r", "e", "n", "g", "t", "h">>
    @@ "Thank" :> <<"T", "h", "a", "n", "k">>
    @@ "Thank-you" :> <<"T", "h", "a", "n", "k", "-", "y", "o", "u">>
    @@ "Thrilled" :> <<"T", "h", "r", "i", "l", "l", "e", "d">>
    @@ "Too Fast" :> <<"T", "o", "o", " ", "F", "a", "s", "t">>
    @@ "Too Fast (150 WPM)" :> <<"T", "o", "o", " ", "F", "a", "s", "t", " ", "(", "1", "5", "0", " ", "W", "P", "M", ")">>
    @@ "Too Slow" :> <<"T", "o", "o", " ", "S", "l", "o", "w">>
    @@ "Unique" :> <<"U", "n", "i", "q", "u", "e">>
    @@ "Use an instead of a." :> <<"U", "s", "e", " ", "a", "n", " ", "i", "n", "s", "t", "e", "a", "d", " ", "o", "f", " ", "a", ".">>
    @@ "Very Engaging" :> <<"V", "e", "r", "y", " ", "E", "n", "g", "a", "g", "i", "n", "g">>
    @@ "Very repetitive" :> <<"V", "e", "r", "y", " ", "r", "e", "p", "e", "t", "i", "t", "i", "v", "e">>
    @@ "Very repetitive (TTR: 0.00)" :> <<"V", "e", "r", "y", " ", "r", "e", "p", "e", "t", "i", "t", "i", "v", "e", " ", "(", "T", "T", "R", ":", " ", "0", ".", "0", "0", ")">>
    @@ "X" :> <<"X">>
    @@ "[+] " :> <<"[", "+", "]", " ">>
    @@ "[-] " :> <<"[", "-", "]", " ">>
    @@ "[CRITICAL GRAMMAR ERRORS] (" :> <<"[", "C", "R", "I", "T", "I", "C", "A", "L", " ", "G", "R", "A", "M", "M", "A", "R", " ", "E", "R", "R", "O", "R", "S", "]", " ", "(">>
    @@ "[CRITICAL GRAMMAR ERRORS]: None." :> <<"[", "C", "R", "I", "T", "I", "C", "A", "L", " ", "G", "R", "A", "M", "M", "A", "R", " ", "E", "R", "R", "O", "R", "S", "]", ":", " ", "N", "o", "n", "e", ".">>
    @@ "[IGNORED ISSUES] (" :> <<"[", "I", "G", "N", "O", "R", "E", "D", " ", "I", "S", "S", "U", "E", "S", "]", " ", "(">>
    @@ "achievement" :> <<"a", "c", "h", "i", "e", "v", "e", "m", "e", "n", "t">>
    @@ "actually" :> <<"a", "c", "t", "u", "a", "l", "l", "y">>
    @@ "am" :> <<"a", "m">>
    @@ "amazing" :> <<"a", "m", "a", "z", "i", "n", "g">>
    @@ "ambition" :> <<"a", "m", "b", "i", "t", "i", "o", "n">>
    @@ "an" :> <<"a", "n">>
    @@ "and" :> <<"a", "n", "d">>
    @@ "award" :> <<"a", "w", "a", "r", "d">>
    @@ "basically" :> <<"b", "a", "s", "i", "c", "a", "l", "l", "y">>
    @@ "born in" :> <<"b", "o", "r", "n", " ", "i", "n">>
    @@ "capitalization" :> <<"c", "a", "p", "i", "t", "a", "l", "i", "z", "a", "t", "i", "o", "n">>
    @@ "class" :> <<"c", "l", "a", "s", "s">>
    @@ "college" :> <<"c", "o", "l", "l", "e", "g", "e">>
    @@ "comma" :> <<"c", "o", "m", "m", "a">>
    @@ "compound" :> <<"c", "o", "m", "p", "o", "u", "n", "d">>
    @@ "confident" :> <<"c", "o", "n", "f", "i", "d", "e", "n", "t">>
    @@ "consecutive" :> <<"c", "o", "n", "s", "e", "c", "u", "t", "i", "v", "e">>
    @@ "delighted" :> <<"d", "e", "l", "i", "g", "h", "t", "e", "d">>
    @@ "division by zero" :> <<"d", "i", "v", "i", "s", "i", "o", "n", " ", "b", "y", " ", "z", "e", "r", "o">>
    @@ "dream" :> <<"d", "r", "e", "a", "m">>
    @@ "encoder failed" :> <<"e", "n", "c", "o", "d", "e", "r", " ", "f", "a", "i", "l", "e", "d">>
    @@ "energetic" :> <<"e", "n", "e", "r", "g", "e", "t", "i", "c">>
    @@ "enjoy" :> <<"e", "n", "j", "o", "y">>
    @@ "evening" :> <<"e", "v", "e", "n", "i", "n", "g">>
    @@ "everyone" :> <<"e", "v", "e", "r", "y", "o", "n", "e">>
    @@ "excited" :> <<"e", "x", "c", "i", "t", "e", "d">>
    @@ "excited to introduce" :> <<"e", "x", "c", "i", "t", "e", "d", " ", "t", "o", " ", "i", "n", "t", "r", "o", "d", "u", "c", "e">>
    @@ "family" :> <<"f", "a", "m", "i", "l", "y">>
    @@ "fantastic" :> <<"f", "a", "n", "t", "a", "s", "t", "i", "c">>
    @@ "father" :> <<"f", "a", "t", "h", "e", "r">>
    @@ "feeling great" :> <<"f", "e", "e", "l", "i", "n", "g", " ", "g", "r", "e", "a", "t">>
    @@ "fifteen" :> <<"f", "i", "f", "t", "e", "e", "n">>
    @@ "fourteen" :> <<"f", "o", "u", "r", "t", "e", "e", "n">>
    @@ "from" :> <<"f", "r", "o", "m">>
    @@ "fun fact" :> <<"f", "u", "n", " ", "f", "a", "c", "t">>
    @@ "gloves" :> <<"g", "l", "o", "v", "e", "s">>
    @@ "goal" :> <<"g", "o", "a", "l">>
    @@ "good" :> <<"g", "o", "o", "d">>
    @@ "good afternoon" :> <<"g", "o", "o", "d", " ", "a", "f", "t", "e", "r", "n", "o", "o", "n">>
    @@ "good at" :> <<"g", "o", "o", "d", " ", "a", "t">>
    @@ "good day" :> <<"g", "o", "o", "d", " ", "d", "a", "y">>
    @@ "good evening" :> <<"g", "o", "o", "d", " ", "e", "v", "e", "n", "i", "n", "g">>
    @@ "good morning" :> <<"g", "o", "o", "d", " ", "m", "o", "r", "n", "i", "n", "g">>
    @@ "grade" :> <<"g", "r", "a", "d", "e">>
    @@ "grateful" :> <<"g", "r", "a", "t", "e", "f", "u", "l">>
    @@ "great" :> <<"g", "r", "e", "a", "t">>
    @@ "greetings" :> <<"g", "r", "e", "e", "t", "i", "n", "g", "s">>
    @@ "hello" :> <<"h", "e", "l", "l", "o">>
    @@ "hello everyone" :> <<"h", "e", "l", "l", "o", " ", "e", "v", "e", "r", "y", "o", "n", "e">>
    @@ "hi" :> <<"h", "i">>
    @@ "hiking" :> <<"h", "i", "k", "i", "n", "g">>
    @@ "hmm" :> <<"h", "m", "m">>
    @@ "hobbies" :> <<"h", "o", "b", "b", "i", "e", "s">>
    @@ "hobby" :> <<"h", "o", "b", "b", "y">>
    @@ "hometown" :> <<"h", "o", "m", "e", "t", "o", "w", "n">>
    @@ "honor" :> <<"h", "o", "n", "o", "r">>
    @@ "hyphen" :> <<"h", "y", "p", "h", "e", "n">>
    @@ "i 'm" :> <<"i", " ", "'", "m">>
    @@ "i am" :> <<"i", " ", "a", "m">>
    @@ "i am from" :> <<"i", " ", "a", "m", " ", "f", "r", "o", "m">>
    @@ "i m" :> <<"i", " ", "m">>
    @@ "i mean" :> <<"i", " ", "m", "e", "a", "n">>
    @@ "i'm" :> <<"i", "'", "m">>
    @@ "i'm from" :> <<"i", "'", "m", " ", "f", "r", "o", "m">>
    @@ "im" :> <<"i", "m">>
    @@ "introduce" :> <<"i", "n", "t", "r", "o", "d", "u", "c", "e">>
    @@ "is" :> <<"i", "s">>
    @@ "joined" :> <<"j", "o", "i", "n", "e", "d">>
    @@ "kinda" :> <<"k", "i", "n", "d", "a">>
    @@ "like" :> <<"l", "i", "k", "e">>
    @@ "like playing" :> <<"l", "i", "k", "e", " ", "p", "l", "a", "y", "i", "n", "g">>
    @@ "like reading" :> <<"l", "i", "k", "e", " ", "r", "e", "a", "d", "i", "n", "g">>
    @@ "like to" :> <<"l", "i", "k", "e", " ", "t", "o">>
    @@ "live in" :> <<"l", "i", "v", "e", " ", "i", "n">>
    @@ "living in" :> <<"l", "i", "v", "i", "n", "g", " ", "i", "n">>
    @@ "love" :> <<"l", "o", "v", "e">>
    @@ "morfologik" :> <<"m", "o", "r", "f", "o", "l", "o", "g", "i", "k">>
    @@ "mother" :> <<"m", "o", "t", "h", "e", "r">>
    @@ "my" :> <<"m", "y">>
    @@ "myself" :> <<"m", "y", "s", "e", "l", "f">>
    @@ "name" :> <<"n", "a", "m", "e">>
    @@ "name is" :> <<"n", "a", "m", "e", " ", "i", "s">>
    @@ "native" :> <<"n", "a", "t", "i", "v", "e">>
    @@ "object has no attribute" :> <<"o", "b", "j", "e", "c", "t", " ", "h", "a", "s", " ", "n", "o", " ", "a", "t", "t", "r", "i", "b", "u", "t", "e">>
    @@ "originally from" :> <<"o", "r", "i", "g", "i", "n", "a", "l", "l", "y", " ", "f", "r", "o", "m">>
    @@ "parents" :> <<"p", "a", "r", "e", "n", "t", "s">>
    @@ "passionate" :> <<"p", "a", "s", "s", "i", "o", "n", "a", "t", "e">>
    @@ "pastime" :> <<"p", "a", "s", "t", "i", "m", "e">>
    @@ "pleasure" :> <<"p", "l", "e", "a", "s", "u", "r", "e">>
    @@ "pleasure to introduce" :> <<"p", "l", "e", "a", "s", "u", "r", "e", " ", "t", "o", " ", "i", "n", "t", "r", "o", "d", "u", "c", "e">>
    @@ "punctuation" :> <<"p", "u", "n", "c", "t", "u", "a", "t", "i", "o", "n">>
    @@ "repetition" :> <<"r", "e", "p", "e", "t", "i", "t", "i", "o", "n">>
    @@ "rewording" :> <<"r", "e", "w", "o", "r", "d", "i", "n", "g">>
    @@ "right" :> <<"r", "i", "g", "h", "t">>
    @@ "same word" :> <<"s", "a", "m", "e", " ", "w", "o", "r", "d">>
    @@ "school" :> <<"s", "c", "h", "o", "o", "l">>
    @@ "sentence start" :> <<"s", "e", "n", "t", "e", "n", "c", "e", " ", "s", "t", "a", "r", "t">>
    @@ "sentiment analyzer failed" :> <<"s", "e", "n", "t", "i", "m", "e", "n", "t", " ", "a", "n", "a", "l", "y", "z", "e", "r", " ", "f", "a", "i", "l", "e", "d">>
    @@ "siblings" :> <<"s", "i", "b", "l", "i", "n", "g", "s">>
    @@ "sixteen" :> <<"s", "i", "x", "t", "e", "e", "n">>
    @@ "sort of" :> <<"s", "o", "r", "t", " ", "o", "f">>
    @@ "special" :> <<"s", "p", "e", "c", "i", "a", "l">>
    @@ "spelling" :> <<"s", "p", "e", "l", "l", "i", "n", "g">>
    @@ "standard" :> <<"s", "t", "a", "n", "d", "a", "r", "d">>
    @@ "strength" :> <<"s", "t", "r", "e", "n", "g", "t", "h">>
    @@ "student" :> <<"s", "t", "u", "d", "e", "n", "t">>
    @@ "study" :> <<"s", "t", "u", "d", "y">>
    @@ "style" :> <<"s", "t", "y", "l", "e">>
    @@ "successive" :> <<"s", "u", "c", "c", "e", "s", "s", "i", "v", "e">>
    @@ "thesaurus" :> <<"t", "h", "e", "s", "a", "u", "r", "u", "s">>
    @@ "thirteen" :> <<"t", "h", "i", "r", "t", "e", "e", "n">>
    @@ "this" :> <<"t", "h", "i", "s">>
    @@ "this is" :> <<"t", "h", "i", "s", " ", "i", "s">>
    @@ "thrilled" :> <<"t", "h", "r", "i", "l", "l", "e", "d">>
    @@ "to" :> <<"t", "o">>
    @@ "typo" :> <<"t", "y", "p", "o">>
    @@ "uh" :> <<"u", "h">>
    @@ "um" :> <<"u", "m">>
    @@ "unique" :> <<"u", "n", "i", "q", "u", "e">>
    @@ "university" :> <<"u", "n", "i", "v", "e", "r", "s", "i", "t", "y">>
    @@ "uppercase" :> <<"u", "p", "p", "e", "r", "c", "a", "s", "e">>
    @@ "want to be" :> <<"w", "a", "n", "t", " ", "t", "o", " ", "b", "e">>
    @@ "well" :> <<"w", "e", "l", "l">>
    @@ "whitespace" :> <<"w", "h", "i", "t", "e", "s", "p", "a", "c", "e">>
    @@ "won" :> <<"w", "o", "n">>
    @@ "wonderful" :> <<"w", "o", "n", "d", "e", "r", "f", "u", "l">>
    @@ "word" :> <<"w", "o", "r", "d">>
    @@ "wordiness" :> <<"w", "o", "r", "d", "i", "n", "e", "s", "s">>
    @@ "years" :> <<"y", "e", "a", "r", "s">>
    @@ "you" :> <<"y", "o", "u">>
    @@ "you know" :> <<"y", "o", "u", " ", "k", "n", "o", "w">>
    @@ "yrs" :> <<"y", "r", "s">>
\*CHARS-END

W(s) == Chars[s]

WS(ss) == [i \in 1..Len(ss) |-> Chars[ss[i]]]

Min(a, b) == IF a <= b THEN a ELSE b

Max(a, b) == IF a >= b THEN a ELSE b

\* the concatenation of the strings of ss
RECURSIVE Flatten(_)
Flatten(ss) ==
    IF ss = <<>> THEN <<>>
    ELSE IF Len(ss) = 1 THEN ss[1]
    ELSE LET h == Len(ss) \div 2
         IN  Flatten(SubSeq(ss, 1, h)) \o Flatten(SubSeq(ss, h + 1, Len(ss)))

UpperToLower ==
    "A" :> "a" @@ "B" :> "b" @@ "C" :> "c" @@ "D" :> "d" @@ "E" :> "e" @@
    "F" :> "f" @@ "G" :> "g" @@ "H" :> "h" @@ "I" :> "i" @@ "J" :> "j" @@
    "K" :> "k" @@ "L" :> "l" @@ "M" :> "m" @@ "N" :> "n" @@ "O" :> "o" @@
    "P" :> "p" @@ "Q" :> "q" @@ "R" :> "r" @@ "S" :> "s" @@ "T" :> "t" @@
    "U" :> "u" @@ "V" :> "v" @@ "W" :> "w" @@ "X" :> "x" @@ "Y" :> "y" @@
    "Z" :> "z"

\* str.lower()
lower(s) ==
    [i \in 1..Len(s) |->
        IF s[i] \in DOMAIN UpperToLower THEN UpperToLower[s[i]] ELSE s[i]]

\* needle in hay, for strings
Contains(hay, needle) ==
    \/ needle = <<>>
    \/ \E i \in 1..(Len(hay) - Len(needle) + 1) :
            /\ hay[i] = needle[1]
            /\ SubSeq(hay, i, i + Len(needle) - 1) = needle

\* str.replace(c, "") for a single character c
RECURSIVE Remove(_, _)
Remove(s, c) ==
    IF s = <<>> THEN <<>>
    ELSE IF Head(s) = c THEN Remove(Tail(s), c)
    ELSE <<Head(s)>> \o Remove(Tail(s), c)

\* s[a : b] of Python for 0 <= a, with the end clipped to the length
Slice(s, a, b) == SubSeq(s, a + 1, Min(b, Len(s)))

----------------------------------------------------------------------------
(* The spaCy pipeline: tokens, punctuation, sentences.                     *)

PunctChars == {".", ",", "!", "?"}

is_punct(token) == Len(token) = 1 /\ token[1] \in PunctChars

SentenceEnd(token) == Len(token) = 1 /\ token[1] \in {".", "!", "?"}

\* The transcript whose tokens are toks: the tokens separated by single
\* spaces, a punctuation token attached to the token before it.
Render(toks) ==
    Flatten([i \in 1..Len(toks) |->
                IF i = 1 \/ is_punct(toks[i]) THEN toks[i]
                ELSE <<" ">> \o toks[i]])

\* doc.sents: a sentence ends with its final punctuation token, and the
\* tokens after the last one form a last sentence.
RECURSIVE Sents(_)
Sents(toks) ==
    IF toks = <<>> THEN <<>>
    ELSE LET n == Len(toks)
             stops == {i \in 1..n : SentenceEnd(toks[i]) \/ i = n}
             e == CHOOSE i \in stops : \A j \in stops : i <= j
         IN  <<SubSeq(toks, 1, e)>> \o Sents(SubSeq(toks, e + 1, n))

\* [token.text.lower() for token in self.doc if not token.is_punct]
Words(toks) ==
    LET w == SelectSeq(toks, LAMBDA t : ~is_punct(t))
    IN  [i \in 1..Len(w) |-> lower(w[i])]

----------------------------------------------------------------------------
(* Numbers.                                                                *)

Rat(n, d) == [num |-> n, den |-> d]

\* a <= b and a < b for rationals with positive denominators
RatLeq(a, b) == a.num * b.den <= b.num * a.den

RatLess(a, b) == a.num * b.den < b.num * a.den

\* a / b for a >= 0 and b >= 0; the denominator of the result is 0 when b
\* is 0, which is where Python raises ZeroDivisionError
RatDiv(a, b) == Rat(a.num * b.den, a.den * b.num)

DividedByZero(x) == x.den = 0

\* int(x): truncation, for x >= 0
RatInt(a) == a.num \div a.den

DigitChar == <<"0", "1", "2", "3", "4", "5", "6", "7", "8", "9">>

\* str(n) for n >= 0
RECURSIVE DecimalStr(_)
DecimalStr(n) ==
    IF n < 10 THEN <<DigitChar[n + 1]>>
    ELSE DecimalStr(n \div 10) \o <<DigitChar[(n % 10) + 1]>>

----------------------------------------------------------------------------
(* What a scorer hands back: (score, feedback), or an exception.           *)

Result(s, f) == [score |-> s, feedback |-> f]

Raise(e) == [exception |-> e]

Returned(r) == "score" \in DOMAIN r

ZeroDivisionError == Raise(W("division by zero"))

----------------------------------------------------------------------------
(* RUBRIC, src/scorer.py lines 42-65.                                      *)

RUBRIC ==
    [salutation |->
        [normal |-> WS(<<"hi", "hello">>),
         good |-> WS(<<"good morning", "good afternoon", "good evening",
                       "good day", "hello everyone">>),
         excellent |-> WS(<<"excited to introduce", "feeling great",
                            "pleasure to introduce", "greetings">>)],
     speech_rate |->
        [fast_threshold |-> 160, ideal_min |-> 111, ideal_max |-> 140,
         slow_threshold |-> 80],
     fillers |-> WS(<<"um", "uh", "like", "you know", "actually",
                      "basically", "right", "i mean", "well", "kinda",
                      "sort of", "hmm">>)]

----------------------------------------------------------------------------

----------------------------------------------------------------------------
(* score_salutation, lines 82-97.                                          *)

\* the first phrase of the list that occurs in the text, 0 if none does
FirstIn(phrases, text_lower) ==
    LET hits == {i \in 1..Len(phrases) : Contains(text_lower, phrases[i])}
    IN  IF hits = {} THEN 0
        ELSE CHOOSE i \in hits : \A j \in hits : i <= j

\* score_salutation trying the plain greetings before the two better tiers
score_salutation_NormalFirst ==
    LET text_lower == lower(text)
        e == FirstIn(RUBRIC.salutation.excellent, text_lower)
        g == FirstIn(RUBRIC.salutation.good, text_lower)
        n == FirstIn(RUBRIC.salutation.normal, text_lower)
    IN  IF n # 0
        THEN Result(2,
                W("Basic salutation used (Hi/Hello). Try to be more formal."))
        ELSE IF e # 0
        THEN Result(5, W("Excellent salutation used: '")
                       \o RUBRIC.salutation.excellent[e] \o W("'"))
        ELSE IF g # 0
        THEN Result(4, W("Good salutation used: '")
                       \o RUBRIC.salutation.good[g] \o W("'"))
        ELSE Result(0, W("No salutation found."))

score_salutation ==
    LET text_lower == lower(text)
        e == FirstIn(RUBRIC.salutation.excellent, text_lower)
        g == FirstIn(RUBRIC.salutation.good, text_lower)
        n == FirstIn(RUBRIC.salutation.normal, text_lower)
    IN  IF e # 0
        THEN Result(5, W("Excellent salutation used: '")
                       \o RUBRIC.salutation.excellent[e] \o W("'"))
        ELSE IF g # 0
        THEN Result(4, W("Good salutation used: '")
                       \o RUBRIC.salutation.good[g] \o W("'"))
        ELSE IF n # 0
        THEN Result(2,
                W("Basic salutation used (Hi/Hello). Try to be more formal."))
        ELSE Result(0, W("No salutation found."))

----------------------------------------------------------------------------
(* score_speech_rate, lines 206-217.                                       *)

WpmFeedback(label, wpm) ==
    label \o W(" (") \o DecimalStr(RatInt(wpm)) \o W(" WPM)")

\* SpeechRateBands with the "Acceptable" band closed at 140 instead of 160
SpeechRateBands_Acceptable140(wpm) ==
    IF RatLeq(Rat(111, 1), wpm) /\ RatLeq(wpm, Rat(140, 1))
    THEN Result(10, WpmFeedback(W("Ideal"), wpm))
    ELSE IF RatLeq(Rat(81, 1), wpm) /\ RatLeq(wpm, Rat(140, 1))
    THEN Result(6, WpmFeedback(W("Acceptable"), wpm))
    ELSE IF RatLess(Rat(140, 1), wpm)
    THEN Result(2, WpmFeedback(W("Too Fast"), wpm))
    ELSE IF RatLess(wpm, Rat(81, 1))
    THEN Result(2, WpmFeedback(W("Too Slow"), wpm))
    ELSE Result(2, WpmFeedback(W("Poor Pacing"), wpm))

\* SpeechRateBands with the "Ideal" band open at 111
SpeechRateBands_IdealOpen(wpm) ==
    IF RatLess(Rat(111, 1), wpm) /\ RatLeq(wpm, Rat(140, 1))
    THEN Result(10, WpmFeedback(W("Ideal"), wpm))
    ELSE IF RatLeq(Rat(81, 1), wpm) /\ RatLeq(wpm, Rat(160, 1))
    THEN Result(6, WpmFeedback(W("Acceptable"), wpm))
    ELSE IF RatLess(Rat(140, 1), wpm)
    THEN Result(2, WpmFeedback(W("Too Fast"), wpm))
    ELSE IF RatLess(wpm, Rat(81, 1))
    THEN Result(2, WpmFeedback(W("Too Slow"), wpm))
    ELSE Result(2, WpmFeedback(W("Poor Pacing"), wpm))

SpeechRateBands(wpm) ==
    IF RatLeq(Rat(111, 1), wpm) /\ RatLeq(wpm, Rat(140, 1))
    THEN Result(10, WpmFeedback(W("Ideal"), wpm))
    ELSE IF RatLeq(Rat(81, 1), wpm) /\ RatLeq(wpm, Rat(160, 1))
    THEN Result(6, WpmFeedback(W("Acceptable"), wpm))
    ELSE IF RatLess(Rat(140, 1), wpm)
    THEN Result(2, WpmFeedback(W("Too Fast"), wpm))
    ELSE IF RatLess(wpm, Rat(81, 1))
    THEN Result(2, WpmFeedback(W("Too Slow"), wpm))
    ELSE Result(2, WpmFeedback(W("Poor Pacing"), wpm))

score_speech_rate ==
    IF provided_duration = 0
    THEN Result(10, W("Duration not provided (Assumed Ideal)"))
    ELSE LET wpm == IF duration_min.num > 0
                    THEN RatDiv(Rat(total_words, 1), duration_min)
                    ELSE Rat(0, 1)
         IN  IF DividedByZero(wpm) THEN ZeroDivisionError
             ELSE SpeechRateBands(wpm)

----------------------------------------------------------------------------
(* score_vocabulary and score_clarity, lines 299-321.                      *)

\* f"{x:.2f}" for a rational x >= 0: the nearest hundredth, an exact tie
\* going to the even one
Fixed2(x) ==
    LET q == (x.num * 100) \div x.den
        r == (x.num * 100) % x.den
        h == IF 2 * r > x.den \/ (2 * r = x.den /\ q % 2 = 1)
             THEN q + 1 ELSE q
    IN  DecimalStr(h \div 100) \o W(".")
        \o <<DigitChar[((h \div 10) % 10) + 1], DigitChar[(h % 10) + 1]>>

Range(f) == {f[i] : i \in DOMAIN f}

TtrFeedback(label, ttr) == label \o W(" (TTR: ") \o Fixed2(ttr) \o W(")")

VocabularyBands(ttr) ==
    IF RatLeq(Rat(9, 10), ttr)
    THEN Result(10, TtrFeedback(W("Excellent variety"), ttr))
    ELSE IF RatLeq(Rat(7, 10), ttr)
    THEN Result(8, TtrFeedback(W("Good variety"), ttr))
    ELSE IF RatLeq(Rat(5, 10), ttr)
    THEN Result(6, TtrFeedback(W("Average variety"), ttr))
    ELSE IF RatLeq(Rat(3, 10), ttr)
    THEN Result(4, TtrFeedback(W("Repetitive"), ttr))
    ELSE Result(2, TtrFeedback(W("Very repetitive"), ttr))

\* Ttr without the guard on the word count
Ttr_Unguarded(ws, n) == RatDiv(Rat(Cardinality(Range(ws)), 1), Rat(n, 1))

\* distinct_words / self.total_words if self.total_words > 0 else 0
Ttr(ws, n) ==
    IF n > 0 THEN RatDiv(Rat(Cardinality(Range(ws)), 1), Rat(n, 1))
    ELSE Rat(0, 1)

VocabularyFor(ttr) ==
    IF DividedByZero(ttr) THEN ZeroDivisionError ELSE VocabularyBands(ttr)

score_vocabulary == VocabularyFor(Ttr(words, total_words))

FillerFeedback(label, filler_count) ==
    label \o W(" (") \o DecimalStr(filler_count) \o W(" fillers)")

ClarityBands(filler_rate, filler_count) ==
    IF RatLeq(filler_rate, Rat(3, 1))
    THEN Result(15, FillerFeedback(W("Clear speech"), filler_count))
    ELSE IF RatLeq(filler_rate, Rat(6, 1))
    THEN Result(12, FillerFeedback(W("Mostly clear"), filler_count))
    ELSE IF RatLeq(filler_rate, Rat(9, 1))
    THEN Result(9, FillerFeedback(W("Some hesitation"), filler_count))
    ELSE IF RatLeq(filler_rate, Rat(12, 1))
    THEN Result(6, FillerFeedback(W("Hesitant"), filler_count))
    ELSE Result(3, FillerFeedback(W("Distracted by fillers"), filler_count))

FillerCount(ws) ==
    Cardinality({i \in 1..Len(ws) : ws[i] \in Range(RUBRIC.fillers)})

\* (filler_count / self.total_words) * 100 if self.total_words > 0 else 0
FillerRate(filler_count, n) ==
    IF n > 0 THEN RatDiv(Rat(filler_count * 100, 1), Rat(n, 1))
    ELSE Rat(0, 1)

ClarityFor(filler_rate, filler_count) ==
    IF DividedByZero(filler_rate) THEN ZeroDivisionError
    ELSE ClarityBands(filler_rate, filler_count)

score_clarity ==
    ClarityFor(FillerRate(FillerCount(words), total_words), FillerCount(words))

----------------------------------------------------------------------------
(* re.search(pattern, self.text, re.IGNORECASE) for the patterns of        *)
(* score_content.  The transcripts of the model hold single spaces only,   *)
(* so \s+ is one space and \s* is at most one.                             *)

Digits == {DigitChar[i] : i \in 1..10}

Letters == Range(UpperToLower)

\* \w
IsWordChar(c) == c \in Letters \/ c \in Digits \/ c = "_"

MatchAt(s, i, p) ==
    /\ i >= 1 /\ i + Len(p) - 1 <= Len(s)
    /\ s[i] = p[1]
    /\ SubSeq(s, i, i + Len(p) - 1) = p

\* \b before position i and after position j, both holding word characters
BoundaryBefore(s, i) == i = 1 \/ ~IsWordChar(s[i - 1])

BoundaryAfter(s, j) == j = Len(s) \/ ~IsWordChar(s[j + 1])

\* \b(p1|p2|...)\b
SearchWords(chars, alternatives) ==
    \E s \in {lower(chars)} : \E p \in alternatives : \E i \in 1..Len(s) :
        /\ MatchAt(s, i, p)
        /\ BoundaryBefore(s, i)
        /\ BoundaryAfter(s, i + Len(p) - 1)

\* regex_name: \b(name\s+is|i\s+am|i[\s'’]*m|myself|this\s+is)\s+([A-Z])
NameCues ==
    {W("name is"), W("i am"), W("im"), W("i m"), W("i'm"), W("i 'm"),
     W("myself"), W("this is")}

regex_name(chars) ==
    \E s \in {lower(chars)} : \E p \in NameCues : \E i \in 1..Len(s) :
            /\ MatchAt(s, i, p)
            /\ BoundaryBefore(s, i)
            /\ i + Len(p) + 1 <= Len(s)
            /\ s[i + Len(p)] = " "
            /\ s[i + Len(p) + 1] \in Letters

\* regex_age: \b(\d+|thirteen|fourteen|fifteen|sixteen)\s*(-)?\s*(years|yrs)\b
TeenWords == {W("thirteen"), W("fourteen"), W("fifteen"), W("sixteen")}

\* the positions after a number that starts at position i
NumberEnds(s, i) ==
    {i + Len(p) : p \in {q \in TeenWords : MatchAt(s, i, q)}}
    \cup (IF s[i] \in Digits
          THEN {j \in (i + 1)..(Len(s) + 1) :
                    \A k \in i..(j - 1) : s[k] \in Digits}
          ELSE {})

\* position k, and the one after it if c stands at k
Optional(s, k, c) ==
    {k} \cup (IF k <= Len(s) /\ s[k] = c THEN {k + 1} ELSE {})

regex_age(chars) ==
    \E s \in {lower(chars)} : \E i \in 1..Len(s) :
        /\ BoundaryBefore(s, i)
        /\ IsWordChar(s[i])
        /\ \E j \in NumberEnds(s, i) :
           \E k1 \in Optional(s, j, " ") : \E k2 \in Optional(s, k1, "-") :
           \E k3 \in Optional(s, k2, " ") : \E u \in {W("years"), W("yrs")} :
                MatchAt(s, k3, u) /\ BoundaryAfter(s, k3 + Len(u) - 1)

\* regex_school
regex_school(chars) ==
    SearchWords(chars, {W("class"), W("grade"), W("standard"), W("school"),
                        W("college"), W("university"), W("study"),
                        W("student")})

regex_family(chars) ==
    SearchWords(chars, {W("family"), W("parents"), W("mother"), W("father"),
                        W("siblings")})

regex_hobbies(chars) ==
    SearchWords(chars, {W("hobby"), W("hobbies"), W("enjoy"), W("like to"),
                        W("like playing"), W("like reading"), W("pastime")})

regex_ambition(chars) ==
    SearchWords(chars, {W("goal"), W("ambition"), W("dream"),
                        W("want to be")})

regex_strength(chars) ==
    SearchWords(chars, {W("strength"), W("good at"), W("confident")})

regex_unique(chars) ==
    SearchWords(chars, {W("unique"), W("special"), W("fun fact")})

regex_origin(chars) ==
    SearchWords(chars, {W("i am from"), W("i'm from"), W("originally from"),
                        W("live in"), W("living in"), W("born in"),
                        W("hometown"), W("native")})

regex_achievements(chars) ==
    SearchWords(chars, {W("won"), W("achievement"), W("award")})

----------------------------------------------------------------------------
(* score_content, lines 99-157.                                            *)

\* sbert_model.encode raising, as the caller sees it
EncoderError == Raise(W("encoder failed"))

\* check_topic_robust, lines 121-132: the regular expression first, then
\* the best cosine similarity (in hundredths) against 0.35
AsksEncoder(hit, use_ai) == ~hit /\ use_ai /\ sentences # <<>>

check_topic_robust(hit, topic, use_ai) ==
    IF hit THEN TRUE
    ELSE IF use_ai /\ sentences # <<>> THEN sbert_model.best[topic] > 35
    ELSE FALSE

MustHave == <<"Name", "Age", "School", "Family", "Hobbies">>

bonuses == <<"Ambition", "Strength", "Unique", "Origin", "Achievements">>

\* the topics whose check falls back on the encoder, with their regex hit
SemanticTopics ==
    [Family |-> regex_family(text), Hobbies |-> regex_hobbies(text),
     Ambition |-> regex_ambition(text), Strength |-> regex_strength(text),
     Unique |-> regex_unique(text),
     Achievements |-> regex_achievements(text)]

\* which topics the transcript is found to cover
TopicMatches ==
    [Name |-> regex_name(text),
     Age |-> regex_age(text),
     School |-> regex_school(text),
     Family |-> check_topic_robust(regex_family(text), "Family", TRUE),
     Hobbies |-> check_topic_robust(regex_hobbies(text), "Hobbies", TRUE),
     Ambition |-> check_topic_robust(regex_ambition(text), "Ambition", TRUE),
     Strength |-> check_topic_robust(regex_strength(text), "Strength", TRUE),
     Unique |-> check_topic_robust(regex_unique(text), "Unique", TRUE),
     Origin |-> check_topic_robust(regex_origin(text), "Origin", FALSE),
     Achievements |->
        check_topic_robust(regex_achievements(text), "Achievements", TRUE)]

\* scores += 4 for a must-have topic, scores += 2 for a bonus topic
RECURSIVE Awarded(_, _, _)
Awarded(topics, m, points) ==
    IF topics = <<>> THEN 0
    ELSE (IF m[Head(topics)] THEN points ELSE 0)
         + Awarded(Tail(topics), m, points)

ContentPoints(m) == Awarded(MustHave, m, 4) + Awarded(bonuses, m, 2)

\* ContentScore with the ceiling at 20
ContentScore_Ceiling20(m) == Min(20, ContentPoints(m))

\* min(30, scores)
ContentScore(m) == Min(30, ContentPoints(m))

RECURSIVE MustMarkers(_, _)
MustMarkers(topics, m) ==
    IF topics = <<>> THEN <<>>
    ELSE <<(IF m[Head(topics)] THEN W("[+] ") ELSE W("[-] "))
           \o Chars[Head(topics)]>> \o MustMarkers(Tail(topics), m)

RECURSIVE BonusMarkers(_, _)
BonusMarkers(topics, m) ==
    IF topics = <<>> THEN <<>>
    ELSE (IF m[Head(topics)] THEN <<W("[+] ") \o Chars[Head(topics)]>>
          ELSE <<>>) \o BonusMarkers(Tail(topics), m)

\* sep.join(parts)
RECURSIVE Join(_, _)
Join(parts, sep) ==
    IF parts = <<>> THEN <<>>
    ELSE IF Len(parts) = 1 THEN parts[1]
    ELSE parts[1] \o sep \o Join(Tail(parts), sep)

ContentFeedback(m) ==
    Join(MustMarkers(MustHave, m) \o BonusMarkers(bonuses, m), W(", "))

ContentResultFor(m) == Result(ContentScore(m), ContentFeedback(m))

\* the one element of a singleton set
The(S) == CHOOSE x \in S : TRUE

\* hits and m are the regex hits and the topic matches, each computed once
score_content ==
    The({IF sbert_model.raises
            /\ \E t \in DOMAIN hits : AsksEncoder(hits[t], TRUE)
         THEN EncoderError
         ELSE ContentResultFor(m) :
            hits \in {SemanticTopics}, m \in {TopicMatches}})

----------------------------------------------------------------------------
(* score_flow, lines 159-204.                                              *)

RECURSIVE MaxOf(_)
MaxOf(v) == IF Len(v) = 1 THEN v[1] ELSE Max(v[1], MaxOf(Tail(v)))

\* get_idx, lines 171-176: the (0-based) index of the first sentence with
\* the best similarity to the anchors of key, and whether it beats thresh
get_idx(key, thresh) ==
    LET sims == sbert_model.sims[key]
        best_score == MaxOf(sims)
        best_idx == CHOOSE i \in 1..Len(sims) :
                        /\ sims[i] = best_score
                        /\ \A j \in 1..(i - 1) : sims[j] < best_score
    IN  [idx |-> best_idx - 1, has |-> best_score > thresh]

\* lines 183-190: a sentence strictly between idx_i and idx_c is close to
\* the body anchors
HasBody(i, c) ==
    /\ i.has /\ c.has /\ c.idx > i.idx
    /\ c.idx - i.idx >= 1
    /\ \E k \in (i.idx + 1)..(c.idx - 1) : sbert_model.sims["body"][k + 1] > 25

IdxStr(r) == IF r.has THEN DecimalStr(r.idx) ELSE W("X")

DebugInfo(s, i, c) ==
    W("(Indices: Sal=") \o IdxStr(s) \o W(", Intro=") \o IdxStr(i)
    \o W(", End=") \o IdxStr(c) \o W(")")

\* FlowDecision asking for the salutation strictly before the introduction
FlowDecision_StrictOrder(s, i, c, has_body) ==
    LET debug_info == DebugInfo(s, i, c)
        disordered == Result(0, W("Flow disordered. ") \o debug_info)
    IN  IF s.has /\ c.has
        THEN IF i.has
             THEN IF s.idx < i.idx /\ i.idx < c.idx
                  THEN (IF has_body THEN Result(5, W("Perfect Flow"))
                        ELSE Result(5, W("Good Flow (Short body)")))
                  ELSE IF i.idx = c.idx
                  THEN Result(0, W("Disordered: Introduction and Closing are detected in same sentence. ")
                                 \o debug_info)
                  ELSE disordered
             ELSE IF s.idx < c.idx
                  THEN (IF has_body THEN Result(5, W("Good Flow"))
                        ELSE Result(5, W("Acceptable Flow")))
                  ELSE disordered
        ELSE disordered

\* FlowDecision with the index summary left out of "Flow disordered"
FlowDecision_NoSummary(s, i, c, has_body) ==
    LET debug_info == DebugInfo(s, i, c)
        disordered == Result(0, W("Flow disordered. "))
    IN  IF s.has /\ c.has
        THEN IF i.has
             THEN IF s.idx <= i.idx /\ i.idx < c.idx
                  THEN (IF has_body THEN Result(5, W("Perfect Flow"))
                        ELSE Result(5, W("Good Flow (Short body)")))
                  ELSE IF i.idx = c.idx
                  THEN Result(0, W("Disordered: Introduction and Closing are detected in same sentence. ")
                                 \o debug_info)
                  ELSE disordered
             ELSE IF s.idx < c.idx
                  THEN (IF has_body THEN Result(5, W("Good Flow"))
                        ELSE Result(5, W("Acceptable Flow")))
                  ELSE disordered
        ELSE disordered

\* lines 192-204
FlowDecision(s, i, c, has_body) ==
    LET debug_info == DebugInfo(s, i, c)
        disordered == Result(0, W("Flow disordered. ") \o debug_info)
    IN  IF s.has /\ c.has
        THEN IF i.has
             THEN IF s.idx <= i.idx /\ i.idx < c.idx
                  THEN (IF has_body THEN Result(5, W("Perfect Flow"))
                        ELSE Result(5, W("Good Flow (Short body)")))
                  ELSE IF i.idx = c.idx
                  THEN Result(0, W("Disordered: Introduction and Closing are detected in same sentence. ")
                                 \o debug_info)
                  ELSE disordered
             ELSE IF s.idx < c.idx
                  THEN (IF has_body THEN Result(5, W("Good Flow"))
                        ELSE Result(5, W("Acceptable Flow")))
                  ELSE disordered
        ELSE disordered

score_flow ==
    IF sentences = <<>> THEN Result(0, W("No text"))
    ELSE IF sbert_model.raises THEN EncoderError
    ELSE LET s == get_idx("salutation", 25)
             i == get_idx("intro", 25)
             c == get_idx("closing", 30)
         IN  FlowDecision(s, i, c, HasBody(i, c))

----------------------------------------------------------------------------
(* score_grammar, lines 219-297.                                           *)

\* Python's None, where a string is expected
None == <<"<None>">>

NL == <<"\n">>

\* getattr(m, name, default)
GetAttr(m, name, default) == IF name \in DOMAIN m THEN m[name] ELSE default

\* getattr(m, 'errorLength', getattr(m, 'length', 5))
ErrorLength(m) == GetAttr(m, "errorLength", GetAttr(m, "length", 5))

ignore_keywords ==
    WS(<<"hyphen", "compound", "joined", "whitespace", "comma", "punctuation",
         "spelling", "typo", "morfologik", "uppercase", "capitalization",
         "repetition", "consecutive", "successive", "same word",
         "style", "wordiness", "sentence start", "rewording", "thesaurus">>)

\* lines 227-228: .upper() and .lower() of None raise AttributeError
FilterRaises(m) ==
    GetAttr(m, "ruleId", <<>>) = None \/ GetAttr(m, "message", <<>>) = None

\* lines 227-252, for a match that does not raise
is_ignored(m) ==
    LET rid == GetAttr(m, "ruleId", <<>>)
        msg == lower(GetAttr(m, "message", <<>>))
        replacements == GetAttr(m, "replacements", <<>>)
        offset == GetAttr(m, "offset", 0)
        error_text == Slice(text, offset, offset + ErrorLength(m))
    IN  \/ /\ replacements # <<>>
           /\ Contains(replacements[1], W("-"))
           /\ Remove(replacements[1], "-") = Remove(error_text, " ")
        \/ \E k \in Range(ignore_keywords) :
                Contains(msg, k) \/ Contains(lower(rid), k)

\* (err_count / self.total_words) * 100 if self.total_words > 0 else 0
ErrorsPer100(err_count, n) ==
    IF n > 0 THEN RatDiv(Rat(err_count * 100, 1), Rat(n, 1)) ELSE Rat(0, 1)

\* lines 262-268
GrammarBands(errors_per_100) ==
    LET fifth == Rat(errors_per_100.num, errors_per_100.den * 5)
        penalty == IF RatLeq(fifth, Rat(1, 1)) THEN fifth ELSE Rat(1, 1)
        grammar_metric == Rat(penalty.den - penalty.num, penalty.den)
    IN  IF RatLess(Rat(9, 10), grammar_metric) THEN [s |-> 10, g |-> W("Flawless")]
        ELSE IF RatLeq(Rat(7, 10), grammar_metric) THEN [s |-> 8, g |-> W("Good")]
        ELSE IF RatLeq(Rat(5, 10), grammar_metric) THEN [s |-> 6, g |-> W("Average")]
        ELSE IF RatLeq(Rat(3, 10), grammar_metric)
        THEN [s |-> 4, g |-> W("Needs Improvement")]
        ELSE [s |-> 2, g |-> W("Poor")]

\* text[off : off+ln+10], lines 278-280 and 289-291
Context(m) ==
    LET off == GetAttr(m, "offset", 0)
    IN  Slice(text, off, off + ErrorLength(m) + 10)

IssueLine(msg, m) ==
    W("   - ") \o msg \o W(" (Context: '...") \o Context(m) \o W("...')")

\* lines 271-292, for matches that all carry a message
GrammarFeedback(band, scoring_errors, ignored_issues) ==
    LET first3(l) == SubSeq(l, 1, Min(3, Len(l)))
        head == <<band.g \o W(" (Score: ") \o DecimalStr(band.s) \o W("/10)"),
                  W("NOTE: Spelling, hyphens, punctuation, and style ignored.")>>
        crit == IF scoring_errors # <<>>
                THEN <<NL \o W("[CRITICAL GRAMMAR ERRORS] (")
                       \o DecimalStr(Len(scoring_errors)) \o W(" found):")>>
                     \o [k \in 1..Len(first3(scoring_errors)) |->
                            IssueLine(scoring_errors[k].message, scoring_errors[k])]
                ELSE <<NL \o W("[CRITICAL GRAMMAR ERRORS]: None.")>>
        ign == IF ignored_issues # <<>>
               THEN <<NL \o W("[IGNORED ISSUES] (")
                      \o DecimalStr(Len(ignored_issues)) \o W(" found):")>>
                    \o [k \in 1..Len(first3(ignored_issues)) |->
                           IssueLine(GetAttr(ignored_issues[k], "message", W("Issue")),
                                     ignored_issues[k])]
               ELSE <<>>
    IN  Join(head \o crit \o ign, NL)

GrammarResultFor(band, scoring_errors, ignored_issues) ==
    Result(band.s, GrammarFeedback(band, scoring_errors, ignored_issues))

GrammarError(e) == Result(5, W("Error during grammar check: ") \o e)

AttributeError == W("object has no attribute")

\* score_grammar with only grammar_tool.check inside the try block
score_grammar_TryCheckOnly ==
    IF grammar_tool.raises THEN GrammarError(grammar_tool.error)
    ELSE LET matches == grammar_tool.matches
         IN  IF \E k \in 1..Len(matches) : FilterRaises(matches[k])
             THEN Raise(AttributeError)
             ELSE LET scoring_errors ==
                          SelectSeq(matches, LAMBDA m : ~is_ignored(m))
                      ignored_issues ==
                          SelectSeq(matches, LAMBDA m : is_ignored(m))
                      errors_per_100 ==
                          ErrorsPer100(Len(scoring_errors), total_words)
                  IN  IF DividedByZero(errors_per_100)
                      THEN GrammarError(W("division by zero"))
                      ELSE IF \E k \in 1..Min(3, Len(scoring_errors)) :
                            "message" \notin DOMAIN scoring_errors[k]
                      THEN Raise(AttributeError)
                      ELSE GrammarResultFor(GrammarBands(errors_per_100),
                                            scoring_errors, ignored_issues)

score_grammar ==
    IF grammar_tool.raises THEN GrammarError(grammar_tool.error)
    ELSE LET matches == grammar_tool.matches
         IN  IF \E k \in 1..Len(matches) : FilterRaises(matches[k])
             THEN GrammarError(AttributeError)
             ELSE LET scoring_errors ==
                          SelectSeq(matches, LAMBDA m : ~is_ignored(m))
                      ignored_issues ==
                          SelectSeq(matches, LAMBDA m : is_ignored(m))
                      errors_per_100 ==
                          ErrorsPer100(Len(scoring_errors), total_words)
                  IN  IF DividedByZero(errors_per_100)
                      THEN GrammarError(W("division by zero"))
                      ELSE IF \E k \in 1..Min(3, Len(scoring_errors)) :
                            "message" \notin DOMAIN scoring_errors[k]
                      THEN GrammarError(AttributeError)
                      ELSE GrammarResultFor(GrammarBands(errors_per_100),
                                            scoring_errors, ignored_issues)

----------------------------------------------------------------------------
(* score_engagement, lines 323-350.                                        *)

high_energy_kws ==
    WS(<<"excited", "thrilled", "passionate", "delighted", "honor",
         "love", "amazing", "wonderful", "fantastic", "energetic",
         "grateful", "confident", "pleasure">>)

SentimentFeedback(label, prob) ==
    label \o W(" (Sentiment: ") \o Fixed2(prob) \o W(")")

EngagementBands(prob) ==
    IF RatLeq(Rat(9, 10), prob)
    THEN Result(15, SentimentFeedback(W("Very Engaging"), prob))
    ELSE IF RatLeq(Rat(7, 10), prob)
    THEN Result(12, SentimentFeedback(W("Positive"), prob))
    ELSE IF RatLeq(Rat(5, 10), prob)
    THEN Result(9, SentimentFeedback(W("Neutral"), prob))
    ELSE IF RatLeq(Rat(3, 10), prob)
    THEN Result(6, SentimentFeedback(W("Slightly Negative"), prob))
    ELSE Result(3, SentimentFeedback(W("Negative"), prob))

has_enthusiasm ==
    \E text_lower \in {lower(text)} :
        \E w \in Range(high_energy_kws) : Contains(text_lower, w)

\* score_engagement without the cap of lines 338-339
score_engagement_Uncapped ==
    IF sentiment_analyzer.raises THEN Raise(W("sentiment analyzer failed"))
    ELSE EngagementBands(Rat(sentiment_analyzer.compound + 100, 200))

score_engagement ==
    IF sentiment_analyzer.raises THEN Raise(W("sentiment analyzer failed"))
    ELSE LET prob == Rat(sentiment_analyzer.compound + 100, 200)
             capped == IF RatLeq(Rat(9, 10), prob) /\ ~has_enthusiasm
                       THEN Rat(88, 100) ELSE prob
         IN  EngagementBands(capped)

----------------------------------------------------------------------------
(* calculate_overall_score, lines 352-379, and the calls of the scorers.   *)

Scorers ==
    <<"score_salutation", "score_content", "score_flow", "score_speech_rate",
      "score_grammar", "score_vocabulary", "score_clarity",
      "score_engagement">>

\* the keys of "Breakdown", with the "max" of each, in the order of the dict
Categories ==
    <<[key |-> "Salutation", max |-> 5],
      [key |-> "Content & Structure", max |-> 30],
      [key |-> "Flow", max |-> 5],
      [key |-> "Speech Rate", max |-> 10],
      [key |-> "Grammar", max |-> 10],
      [key |-> "Vocabulary", max |-> 10],
      [key |-> "Clarity (Fillers)", max |-> 15],
      [key |-> "Engagement", max |-> 15]>>

RECURSIVE Sum(_)
Sum(v) == IF v = <<>> THEN 0 ELSE Head(v) + Sum(Tail(v))

\* BuildReport with s_engage left out of the sum
BuildReport_SumOfSeven(l) ==
    ("Total Score" :> Sum([k \in 1..(Len(Scorers) - 1) |-> l[Scorers[k]].score]))
    @@ ("Breakdown" :>
        [k \in 1..Len(Scorers) |->
            [key |-> Categories[k].key,
             score |-> l[Scorers[k]].score,
             max |-> Categories[k].max,
             feedback |-> l[Scorers[k]].feedback]])

\* lines 362-379
BuildReport(l) ==
    ("Total Score" :> Sum([k \in 1..Len(Scorers) |-> l[Scorers[k]].score]))
    @@ ("Breakdown" :>
        [k \in 1..Len(Scorers) |->
            [key |-> Categories[k].key,
             score |-> l[Scorers[k]].score,
             max |-> Categories[k].max,
             feedback |-> l[Scorers[k]].feedback]])

\* Invoke with the exception of a scorer caught and scored 0
Invoke_CatchAll(k, res) ==
    /\ pc = Scorers[k]
    /\ invoked' = [invoked EXCEPT ![Scorers[k]] = @ + 1]
    /\ locals' = locals @@ (Scorers[k] :>
                    IF Returned(res) THEN res ELSE Result(0, res.exception))
    /\ pc' = IF call # "calculate_overall_score" THEN "returned"
             ELSE IF k < Len(Scorers) THEN Scorers[k + 1]
             ELSE "return"
    /\ UNCHANGED <<instance, report>>

\* Scorer number k runs to its end: its result is bound to (s_x, f_x) and
\* the next statement follows, or its exception leaves the method.
Invoke(k, res) ==
    /\ pc = Scorers[k]
    /\ invoked' = [invoked EXCEPT ![Scorers[k]] = @ + 1]
    /\ IF Returned(res)
       THEN /\ locals' = locals @@ (Scorers[k] :> res)
            /\ pc' = IF call # "calculate_overall_score" THEN "returned"
                     ELSE IF k < Len(Scorers) THEN Scorers[k + 1]
                     ELSE "return"
       ELSE /\ locals' = locals
            /\ pc' = "raised"
    /\ UNCHANGED <<instance, report>>

run_score_salutation == Invoke(1, score_salutation)

run_score_content == Invoke(2, score_content)

run_score_flow == Invoke(3, score_flow)

run_score_speech_rate == Invoke(4, score_speech_rate)

run_score_grammar == Invoke(5, score_grammar)

run_score_vocabulary == Invoke(6, score_vocabulary)

run_score_clarity == Invoke(7, score_clarity)

run_score_engagement == Invoke(8, score_engagement)

return_report ==
    /\ pc = "return"
    /\ report' = <<BuildReport(locals)>>
    /\ pc' = "returned"
    /\ UNCHANGED <<instance, locals, invoked>>

----------------------------------------------------------------------------
(* Construction, lines 72-80, and the call made on the new instance.       *)

NoDuration == [given |-> FALSE, sec |-> 0]

Seconds(d) == [given |-> TRUE, sec |-> d]

\* __init__ for the transcript whose tokens are toks
Constructed(toks, dur) ==
    /\ audio_duration_sec = dur
    /\ text = Render(toks)
    /\ doc = toks
    /\ provided_duration = (IF dur.given /\ dur.sec # 0 THEN dur.sec ELSE 0)
    /\ duration_min = (IF dur.given /\ dur.sec # 0 THEN Rat(dur.sec, 60)
                       ELSE Rat(0, 1))
    /\ sentences = Sents(toks)
    /\ words = Words(toks)
    /\ total_words = Len(Words(toks))

Called(method) ==
    /\ call = method
    /\ pc = (IF method = "calculate_overall_score" THEN Scorers[1] ELSE method)
    /\ locals = <<>>
    /\ invoked = [n \in Range(Scorers) |-> 0]
    /\ report = <<>>

\* what the external models answer
Encoder(raises, best, sims) == [raises |-> raises, best |-> best, sims |-> sims]

SemanticNames ==
    {"Family", "Hobbies", "Ambition", "Strength", "Unique", "Achievements"}

FlowKeys == {"salutation", "intro", "closing", "body"}

\* an encoder that finds every sentence equally far (level) from everything
FlatEncoder(n, level) ==
    Encoder(FALSE, [t \in SemanticNames |-> level],
            [k \in FlowKeys |-> [i \in 1..n |-> level]])

FailingEncoder(n) == [FlatEncoder(n, 0) EXCEPT !.raises = TRUE]

NoIssues == [raises |-> FALSE, error |-> <<>>, matches |-> <<>>]

Sentiment(c) == [raises |-> FALSE, compound |-> c]

----------------------------------------------------------------------------
(* The speech-rate scorer called on transcripts of 0..MaxWords words.      *)

\* n copies of the tokens toks
Repeat(toks, n) == [i \in 1..(n * Len(toks)) |-> toks[((i - 1) % Len(toks)) + 1]]

Durations == {NoDuration} \cup {Seconds(d) : d \in {-60, 0, 30, 50, 60}}

RateTranscripts ==
    {Repeat(<<W("word")>>, n) \o end : n \in 0..MaxWords,
                                      end \in {<<>>, <<W(".")>>}}

InitRate ==
    /\ \E toks \in RateTranscripts : \E dur \in Durations :
            /\ Constructed(toks, dur)
            /\ sbert_model = FlatEncoder(Len(Sents(toks)), 0)
    /\ grammar_tool = NoIssues
    /\ sentiment_analyzer = Sentiment(0)
    /\ Called("score_speech_rate")

SpecRate == InitRate /\ [][run_score_speech_rate]_vars

----------------------------------------------------------------------------
(* Properties of score_speech_rate, under SpecRate.                        *)

HasPrefix(s, p) == Len(s) >= Len(p) /\ SubSeq(s, 1, Len(p)) = p

\* the scorer has returned to a caller that invoked it alone
ReturnedFrom(name) == call = name /\ pc = "returned"

RateResult == locals["score_speech_rate"]

RateIs(score, label) ==
    RateResult.score = score /\ HasPrefix(RateResult.feedback, label)

SixtySeconds(n) ==
    ReturnedFrom("score_speech_rate") /\ audio_duration_sec = Seconds(60)
    /\ total_words = n

\* C2, as the spec states it: with duration 60 a transcript of 150 words has
\* WPM 150 and scores 2 "Too Fast", and one of 125 words has WPM 125 and
\* scores 10 "Ideal".
C2_AsStated ==
    /\ SixtySeconds(150) => RateIs(2, W("Too Fast (150 WPM)"))
    /\ SixtySeconds(125) => RateIs(10, W("Ideal (125 WPM)"))

\* C2, amended: with duration 60 a transcript of 150 words has WPM 150 and
\* scores 6 "Acceptable" (the 81-160 band is tried before "Too Fast"), and
\* one of 125 words has WPM 125 and scores 10 "Ideal".
C2_SpeechRateExamples ==
    /\ SixtySeconds(150) => RateResult = Result(6, W("Acceptable (150 WPM)"))
    /\ SixtySeconds(125) => RateResult = Result(10, W("Ideal (125 WPM)"))

C2_Witness == SixtySeconds(150) /\ RateResult.score = 6

\* The bands of the spec for total_words words in sec seconds, sec # 0,
\* with WPM = total_words / (sec / 60): WPM >= k is 60 * total_words >= k * sec
\* when sec > 0, and WPM <= 0 when sec < 0.
SpecBand(n, sec) ==
    LET AtLeast(k) == IF sec > 0 THEN 60 * n >= k * sec ELSE k <= 0
        AtMost(k) == IF sec > 0 THEN 60 * n <= k * sec ELSE k >= 0
    IN  IF AtLeast(111) /\ AtMost(140) THEN <<10, W("Ideal")>>
        ELSE IF AtLeast(81) /\ AtMost(160) THEN <<6, W("Acceptable")>>
        ELSE IF ~AtMost(140) THEN <<2, W("Too Fast")>>
        ELSE IF ~AtLeast(81) THEN <<2, W("Too Slow")>>
        ELSE <<2, W("Poor Pacing")>>

\* C4: with the duration absent or 0 the result is 10 "Duration not provided
\* (Assumed Ideal)"; otherwise it is the first band, in the order Ideal,
\* Acceptable, Too Fast, Too Slow, that WPM = total_words / (duration / 60)
\* falls in, and it is never the "Poor Pacing" fallback.
C4_SpeechRateBands ==
    ReturnedFrom("score_speech_rate") =>
        IF ~audio_duration_sec.given \/ audio_duration_sec.sec = 0
        THEN RateResult = Result(10, W("Duration not provided (Assumed Ideal)"))
        ELSE LET band == SpecBand(total_words, audio_duration_sec.sec)
             IN  /\ RateIs(band[1], band[2] \o W(" ("))
                 /\ ~HasPrefix(RateResult.feedback, W("Poor Pacing"))
                 /\ \E l \in {W("Ideal"), W("Acceptable"), W("Too Fast"),
                              W("Too Slow")} :
                        HasPrefix(RateResult.feedback, l)

\* 117 words in 50 seconds: WPM 140.4, past "Ideal" and still "Acceptable"
C4_Witness ==
    /\ ReturnedFrom("score_speech_rate")
    /\ audio_duration_sec = Seconds(50) /\ total_words = 117
    /\ RateIs(6, W("Acceptable (140 WPM)"))

----------------------------------------------------------------------------
(* The salutation scorer called on transcripts of up to MaxFragments       *)
(* fragments.                                                              *)

\* every concatenation of at most n sequences of pool
RECURSIVE Concatenations(_, _)
Concatenations(pool, n) ==
    IF n = 0 THEN {<<>>}
    ELSE LET shorter == Concatenations(pool, n - 1)
         IN  shorter \cup {t \o f : t \in shorter, f \in pool}

SalutationFragments ==
    {WS(<<"Hi">>), WS(<<"Hello", "everyone">>), WS(<<"Good", "Morning">>),
     WS(<<"pleasure", "to", "introduce">>), WS(<<"Greetings">>),
     WS(<<"Feeling", "great">>), WS(<<"this">>), WS(<<"good">>),
     WS(<<"evening">>), WS(<<".">>)}

InitSalutation ==
    /\ \E toks \in Concatenations(SalutationFragments, MaxFragments) :
            /\ Constructed(toks, NoDuration)
            /\ sbert_model = FlatEncoder(Len(Sents(toks)), 0)
    /\ grammar_tool = NoIssues
    /\ sentiment_analyzer = Sentiment(0)
    /\ Called("score_salutation")

SpecSalutation == InitSalutation /\ [][run_score_salutation]_vars

SalutationResult == locals["score_salutation"]

\* the phrases of a tier that occur in the lowercased transcript
Present(tier) ==
    {i \in 1..Len(tier) : Contains(lower(text), tier[i])}

\* the feedback names the first phrase of the tier that occurs
NamesFirst(tier, intro) ==
    \E i \in Present(tier) :
        /\ \A j \in Present(tier) : i <= j
        /\ SalutationResult.feedback = intro \o tier[i] \o W("'")

\* C6: the score is 5 exactly when an excellent phrase occurs in the
\* lowercased transcript, 4 exactly when none does and a good phrase occurs,
\* 2 exactly when neither does and "hi" or "hello" occurs, and 0 "No
\* salutation found." otherwise; "hi" together with "pleasure to introduce"
\* scores 5; the phrase named is the first of its tier, in list order, that
\* occurs.
C6_SalutationPriority ==
    ReturnedFrom("score_salutation") =>
        LET E == Present(RUBRIC.salutation.excellent)
            G == Present(RUBRIC.salutation.good)
            N == Present(RUBRIC.salutation.normal)
            r == SalutationResult
        IN  /\ r.score = 5 <=> E # {}
            /\ r.score = 4 <=> (E = {} /\ G # {})
            /\ r.score = 2 <=> (E = {} /\ G = {} /\ N # {})
            /\ (E = {} /\ G = {} /\ N = {})
                    <=> r = Result(0, W("No salutation found."))
            /\ r.score \in {0, 2, 4, 5}
            /\ r.score = 5 =>
                    NamesFirst(RUBRIC.salutation.excellent,
                               W("Excellent salutation used: '"))
            /\ r.score = 4 =>
                    NamesFirst(RUBRIC.salutation.good,
                               W("Good salutation used: '"))
            /\ (Contains(lower(text), W("hi"))
                    /\ Contains(lower(text), W("pleasure to introduce")))
                    => r.score = 5

\* "Hi" and "pleasure to introduce" in one transcript, scored 5
C6_Witness ==
    /\ ReturnedFrom("score_salutation")
    /\ Contains(lower(text), W("hi"))
    /\ Contains(lower(text), W("pleasure to introduce"))
    /\ ~Contains(lower(text), W("greetings"))
    /\ SalutationResult =
            Result(5, W("Excellent salutation used: 'pleasure to introduce'"))

----------------------------------------------------------------------------
(* The content scorer called on transcripts of up to MaxFragments          *)
(* fragments, the encoder finding any set of the semantic topics.          *)

ContentFragments ==
    {WS(<<"I", "am", "from", "Delhi">>), WS(<<"fifteen", "years">>),
     WS(<<"school">>), WS(<<"I", "am">>), WS(<<"my", "mother", ".">>)}

SemanticOrder ==
    <<"Family", "Hobbies", "Ambition", "Strength", "Unique", "Achievements">>

\* the best similarity is just above 0.35 for the first k semantic topics
\* and exactly 0.35 for the others
TopicEncoders(n) ==
    {[FlatEncoder(n, 0) EXCEPT
        !.best = [t \in SemanticNames |->
                    IF \E j \in 1..k : SemanticOrder[j] = t THEN 36 ELSE 35]] :
     k \in 0..Len(SemanticOrder)}

InitContent ==
    /\ \E toks \in Concatenations(ContentFragments, MaxFragments) :
            /\ Constructed(toks, NoDuration)
            /\ sbert_model \in TopicEncoders(Len(Sents(toks)))
                                \cup {FailingEncoder(Len(Sents(toks)))}
    /\ grammar_tool = NoIssues
    /\ sentiment_analyzer = Sentiment(0)
    /\ Called("score_content")

SpecContent == InitContent /\ [][run_score_content]_vars

ContentResult == locals["score_content"]

Matched(topics, m) == Cardinality({t \in Range(topics) : m[t]})

\* C7: the score is min(30, 4 x matched must-have topics + 2 x matched bonus
\* topics); with every other topic's outcome as it is, the outcomes with Age
\* matched score exactly 4 more than those with Age unmatched; and the score
\* never exceeds 30.
C7_ContentScore ==
    ReturnedFrom("score_content") =>
        \E m \in {TopicMatches} :
            /\ ContentResult.score =
                    Min(30, 4 * Matched(MustHave, m) + 2 * Matched(bonuses, m))
            /\ ContentScore([m EXCEPT !.Age = TRUE])
                    = ContentScore([m EXCEPT !.Age = FALSE]) + 4
            /\ ContentResult.score <= 30

\* every topic matched but Age is 22; with Age it is 26
C7_Witness ==
    /\ ReturnedFrom("score_content")
    /\ TopicMatches.Age
    /\ ContentResult.score = 26
    /\ ContentScore([TopicMatches EXCEPT !.Age = FALSE]) = 22

----------------------------------------------------------------------------
(* The flow scorer called on transcripts of up to MaxSentences sentences,  *)
(* the encoder placing each sentence at or just above each threshold.      *)

FlowTranscripts == {Repeat(WS(<<"word", ".">>), n) : n \in 0..MaxSentences}

\* the similarities a sentence can have to the anchors of a key: the
\* threshold of the key, and just above it
SimLevels ==
    [salutation |-> {25, 26}, intro |-> {25, 26}, closing |-> {30, 31},
     body |-> {25, 26}]

FlowEncoders(n) ==
    {[FlatEncoder(n, 0) EXCEPT !.sims = sims] :
     sims \in [salutation : [1..n -> SimLevels.salutation],
               intro : [1..n -> SimLevels.intro],
               closing : [1..n -> SimLevels.closing],
               body : [1..n -> SimLevels.body]]}

InitFlow ==
    /\ \E toks \in FlowTranscripts :
            /\ Constructed(toks, NoDuration)
            /\ sbert_model \in FlowEncoders(Len(Sents(toks)))
                                \cup {FailingEncoder(Len(Sents(toks)))}
    /\ grammar_tool = NoIssues
    /\ sentiment_analyzer = Sentiment(0)
    /\ Called("score_flow")

SpecFlow == InitFlow /\ [][run_score_flow]_vars

FlowResult == locals["score_flow"]

\* the decision policy of the spec, section 4.4, for the located roles
\* s, i, c ([idx, has] each) and the outcome of the body check
FlowPolicy(s, i, c, body) ==
    IF ~s.has \/ ~c.has THEN <<0, W("Flow disordered")>>
    ELSE IF i.has
    THEN IF i.idx = c.idx
         THEN <<0, W("Disordered: Introduction and Closing are detected in same sentence.")>>
         ELSE IF s.idx <= i.idx /\ i.idx < c.idx
         THEN (IF body THEN <<5, W("Perfect Flow")>>
               ELSE <<5, W("Good Flow (Short body)")>>)
         ELSE <<0, W("Flow disordered")>>
    ELSE IF s.idx < c.idx
    THEN (IF body THEN <<5, W("Good Flow")>> ELSE <<5, W("Acceptable Flow")>>)
    ELSE <<0, W("Flow disordered")>>

\* the body check of the spec: the introduction is present and a sentence
\* strictly between it and the closing is above 0.25 for the body anchors
BodyDetected(i, c) ==
    i.has /\ \E k \in 1..Len(sentences) :
                /\ i.idx < k - 1 /\ k - 1 < c.idx
                /\ sbert_model.sims.body[k] > 25

\* C9: with at least one sentence, the result of score_flow is the decision
\* policy of the spec applied to the located salutation, introduction and
\* closing and to the body check; a score of 5 carries exactly the label, a
\* score of 0 starts with it; and the score is 0 or 5.
C9_FlowPolicy ==
    (ReturnedFrom("score_flow") /\ sentences # <<>>) =>
        \E s \in {get_idx("salutation", 25)} :
        \E i \in {get_idx("intro", 25)} :
        \E c \in {get_idx("closing", 30)} :
            LET want == FlowPolicy(s, i, c, BodyDetected(i, c))
            IN  /\ FlowResult.score = want[1]
                /\ FlowResult.score \in {0, 5}
                /\ IF want[1] = 5 THEN FlowResult.feedback = want[2]
                   ELSE HasPrefix(FlowResult.feedback, want[2])

\* salutation and introduction in the first sentence, the closing in the
\* third, the second one body: "Perfect Flow"
C9_Witness ==
    /\ ReturnedFrom("score_flow")
    /\ Len(sentences) = 3
    /\ get_idx("salutation", 25) = [idx |-> 0, has |-> TRUE]
    /\ get_idx("intro", 25) = [idx |-> 0, has |-> TRUE]
    /\ get_idx("closing", 30) = [idx |-> 2, has |-> TRUE]
    /\ FlowResult = Result(5, W("Perfect Flow"))

IndexSummary ==
    DebugInfo(get_idx("salutation", 25), get_idx("intro", 25),
              get_idx("closing", 30))

\* C10, as the spec states it: whichever branch produced it, the feedback of
\* score_flow includes the index summary.
C10_AsStated ==
    ReturnedFrom("score_flow") =>
        Contains(FlowResult.feedback, W("Indices: Sal="))

\* C10, amended: the feedback of score_flow includes the index summary
\* exactly when the transcript has a sentence and the score is 0; the
\* results that score 5, and "No text", carry none.
C10_IndexSummary ==
    ReturnedFrom("score_flow") =>
        /\ Contains(FlowResult.feedback, W("Indices: Sal="))
                <=> (sentences # <<>> /\ FlowResult.score = 0)
        /\ (sentences # <<>> /\ FlowResult.score = 0)
                => Contains(FlowResult.feedback, IndexSummary)

\* the closing is not found: "Flow disordered", with the summary
C10_Witness ==
    /\ ReturnedFrom("score_flow")
    /\ FlowResult =
         Result(0, W("Flow disordered. (Indices: Sal=1, Intro=0, End=X)"))

----------------------------------------------------------------------------
(* calculate_overall_score called on transcripts of up to MaxParts parts,  *)
(* with what the external models may answer.                               *)

PipelineParts ==
    {WS(<<"Hello", "everyone", ".">>),
     WS(<<"My", "name", "is", "Alex", "and", "I", "love", "hiking", ".">>),
     WS(<<"Thank", "you", ".">>),
     WS(<<"um", "um", "like", "um">>),
     WS(<<"!">>)}

LongTranscripts == {Repeat(WS(<<"Thank", "you", ".">>), k) : k \in {15, 23, 35}}

PipelineTranscripts ==
    Concatenations(PipelineParts, MaxParts) \cup LongTranscripts

PipelineDurations == {NoDuration, Seconds(0), Seconds(3)}

\* an encoder that finds the salutation and the introduction in the first
\* sentence, the closing in the last one, and every topic everywhere
KeenEncoder(n) ==
    Encoder(FALSE, [t \in SemanticNames |-> 60],
            [salutation |-> [i \in 1..n |-> IF i = 1 THEN 60 ELSE 10],
             intro |-> [i \in 1..n |-> IF i = 1 THEN 60 ELSE 10],
             closing |-> [i \in 1..n |-> IF i = n THEN 60 ELSE 10],
             body |-> [i \in 1..n |-> 60]])

PipelineEncoders(n) == {FlatEncoder(n, 20), KeenEncoder(n), FailingEncoder(n)}

ScoringMatch ==
    [ruleId |-> W("EN_A_VS_AN"), message |-> W("Use an instead of a."),
     replacements |-> <<W("an")>>, offset |-> 0, errorLength |-> 1]

IgnoredMatch ==
    [ruleId |-> W("MORFOLOGIK_RULE_EN_US"),
     message |-> W("Possible spelling mistake found."),
     replacements |-> <<>>, offset |-> 0, length |-> 5]

HyphenMatch ==
    [ruleId |-> W("EN_COMPOUNDS"), message |-> W("Did you mean Thank-you?"),
     replacements |-> <<W("Thank-you")>>, offset |-> 0, errorLength |-> 9]

NoneRuleMatch == [ruleId |-> None, message |-> W("Use an instead of a.")]

NoMessageMatch == [ruleId |-> W("EN_A_VS_AN"), offset |-> 0, errorLength |-> 1]

Matches(ms) == [raises |-> FALSE, error |-> <<>>, matches |-> ms]

GrammarAnswers ==
    {NoIssues,
     [raises |-> TRUE, error |-> W("LanguageTool is not reachable"),
      matches |-> <<>>],
     Matches(<<ScoringMatch, IgnoredMatch, HyphenMatch>>),
     Matches(<<ScoringMatch, NoneRuleMatch>>),
     Matches(<<NoMessageMatch>>)}

SentimentAnswers ==
    {Sentiment(90), Sentiment(-60),
     [raises |-> TRUE, compound |-> 0]}

Init ==
    /\ \E toks \in PipelineTranscripts : \E dur \in PipelineDurations :
            /\ Constructed(toks, dur)
            /\ sbert_model \in PipelineEncoders(Len(Sents(toks)))
    /\ grammar_tool \in GrammarAnswers
    /\ sentiment_analyzer \in SentimentAnswers
    /\ Called("calculate_overall_score")

Next ==
    \/ run_score_salutation
    \/ run_score_content
    \/ run_score_flow
    \/ run_score_speech_rate
    \/ run_score_grammar
    \/ run_score_vocabulary
    \/ run_score_clarity
    \/ run_score_engagement
    \/ return_report

Spec == Init /\ [][Next]_vars

----------------------------------------------------------------------------
(* Properties of calculate_overall_score.                                  *)

\* calculate_overall_score has returned its dict
Reported == pc = "returned" /\ report # <<>>

Breakdown == report[1]["Breakdown"]

TotalScore == report[1]["Total Score"]

\* the scorer that ran last
LastInvoked ==
    LET ran == {1} \cup {k \in 1..Len(Scorers) : invoked[Scorers[k]] > 0}
    IN  Scorers[CHOOSE k \in ran : \A j \in ran : j <= k]

\* the answer of the grammar tool makes the body of the try block raise
GrammarFault ==
    \/ grammar_tool.raises
    \/ \E k \in 1..Len(grammar_tool.matches) :
            grammar_tool.matches[k] \in {NoneRuleMatch, NoMessageMatch}

\* the encoder is asked and fails, or the sentiment analyzer fails
OtherScorerRaises ==
    \/ sbert_model.raises /\ sentences # <<>>
    \/ sentiment_analyzer.raises

CategoryMax == <<5, 30, 5, 10, 10, 10, 15, 15>>

\* C1: in every report that calculate_overall_score returns, the grammar
\* service having raised or not, each of the eight breakdown scores lies in
\* 0..max of its category (5, 30, 5, 10, 10, 10, 15, 15), "Total Score" is
\* the sum of the eight scores, and so it lies in 0..100.
C1_ReportWithinBounds ==
    Reported =>
        /\ \A k \in 1..Len(Scorers) :
            /\ Breakdown[k].max = CategoryMax[k]
            /\ Breakdown[k].score \in 0..Breakdown[k].max
        /\ TotalScore = Sum([k \in 1..Len(Scorers) |-> Breakdown[k].score])
        /\ TotalScore \in 0..100

C1_Witness ==
    /\ Reported
    /\ grammar_tool.raises
    /\ Breakdown[5].score = 5
    /\ TotalScore > 50

\* C3: when grammar_tool.check raises, or filtering the matches or formatting
\* the feedback raises, score_grammar returns 5 with a feedback that begins
\* "Error during grammar check:", the exception never leaves score_grammar,
\* and a report that follows holds all eight categories.
C3_GrammarRecovers ==
    /\ (GrammarFault /\ invoked["score_grammar"] > 0) =>
            /\ "score_grammar" \in DOMAIN locals
            /\ locals["score_grammar"].score = 5
            /\ HasPrefix(locals["score_grammar"].feedback,
                         W("Error during grammar check:"))
    /\ pc = "raised" => LastInvoked # "score_grammar"
    /\ (GrammarFault /\ pc = "raised") => OtherScorerRaises
    /\ (GrammarFault /\ Reported) =>
            /\ Len(Breakdown) = Len(Categories)
            /\ \A k \in 1..Len(Categories) : Breakdown[k].key = Categories[k].key
            /\ Breakdown[5].score = 5

C3_Witness ==
    /\ Reported
    /\ ~grammar_tool.raises
    /\ GrammarFault
    /\ total_words > 0
    /\ HasPrefix(Breakdown[5].feedback, W("Error during grammar check:"))

\* the scorers of the claim that divide by the word count
Dividers ==
    {"score_speech_rate", "score_grammar", "score_vocabulary", "score_clarity"}

\* C5: on a transcript of zero words no scorer that divides by the word
\* count fails: score_vocabulary returns 2 "Very repetitive" (ratio 0),
\* score_clarity returns 15 "Clear speech" (filler rate 0), score_grammar
\* scores an error rate of 0, and score_speech_rate returns 10 "Duration not
\* provided (Assumed Ideal)" when the duration is absent or zero.
C5_ZeroWords ==
    total_words = 0 =>
        /\ pc = "raised" => LastInvoked \notin Dividers
        /\ \A n \in Dividers : invoked[n] > 0 => n \in DOMAIN locals
        /\ "score_vocabulary" \in DOMAIN locals =>
                locals["score_vocabulary"] =
                    Result(2, W("Very repetitive (TTR: 0.00)"))
        /\ "score_clarity" \in DOMAIN locals =>
                locals["score_clarity"] =
                    Result(15, W("Clear speech (0 fillers)"))
        /\ ("score_grammar" \in DOMAIN locals /\ ~GrammarFault) =>
                /\ locals["score_grammar"].score = 10
                /\ HasPrefix(locals["score_grammar"].feedback, W("Flawless"))
        /\ ("score_speech_rate" \in DOMAIN locals
            /\ (~audio_duration_sec.given \/ audio_duration_sec.sec = 0)) =>
                locals["score_speech_rate"] =
                    Result(10, W("Duration not provided (Assumed Ideal)"))

C5_Witness ==
    /\ Reported
    /\ total_words = 0
    /\ sentences # <<>>
    /\ audio_duration_sec = Seconds(0)
    /\ grammar_tool.matches # <<>>
    /\ Breakdown[6].score = 2
    /\ Breakdown[5].score = 10

\* C8: calculate_overall_score invokes each of the eight scorers exactly
\* once, one after the other, before it builds the report, whose Breakdown
\* holds the eight category keys in their fixed order; when a scorer other
\* than the grammar scorer raises, the exception leaves the method and no
\* report is returned.
C8_EachScorerOnce ==
    /\ \A k \in 1..Len(Scorers) : invoked[Scorers[k]] \in {0, 1}
    /\ \A k \in 2..Len(Scorers) :
            invoked[Scorers[k]] = 1 => invoked[Scorers[k - 1]] = 1
    /\ \A k \in 1..Len(Scorers) :
            pc = Scorers[k] =>
                \A j \in 1..Len(Scorers) :
                    invoked[Scorers[j]] = (IF j < k THEN 1 ELSE 0)
    /\ (pc = "return" \/ report # <<>>) =>
            \A k \in 1..Len(Scorers) : invoked[Scorers[k]] = 1
    /\ report # <<>> =>
            /\ pc = "returned"
            /\ [k \in 1..Len(Breakdown) |-> Breakdown[k].key] =
                    <<"Salutation", "Content & Structure", "Flow",
                      "Speech Rate", "Grammar", "Vocabulary",
                      "Clarity (Fillers)", "Engagement">>
    /\ pc = "raised" => report = <<>> /\ ~ENABLED Next
    /\ OtherScorerRaises => report = <<>> /\ pc # "return"

C8_Witness ==
    /\ pc = "raised"
    /\ invoked["score_engagement"] = 1
    /\ ~sbert_model.raises
    /\ sentiment_analyzer.raises
    /\ "score_clarity" \in DOMAIN locals
    /\ report = <<>>

----------------------------------------------------------------------------
(* The engagement scorer called alone, on every compound score of the      *)
(* analyzer in hundredths.                                                 *)

\* vs['compound'] lies in [-1, 1]
Compounds == (0 - 100)..100

EngagementFragments ==
    {WS(<<"Thrilled">>), WS(<<"gloves">>), WS(<<"hiking">>), WS(<<".">>)}

InitEngagement ==
    /\ \E toks \in Concatenations(EngagementFragments, MaxFragments) :
            /\ Constructed(toks, NoDuration)
            /\ sbert_model = FlatEncoder(Len(Sents(toks)), 0)
    /\ grammar_tool = NoIssues
    /\ sentiment_analyzer \in {Sentiment(c) : c \in Compounds}
    /\ Called("score_engagement")

SpecEngagement == InitEngagement /\ [][run_score_engagement]_vars

EngagementResult == locals["score_engagement"]

\* the lowercased transcript holds a high-energy keyword as a substring
KeywordPresent ==
    \E s \in {lower(text)} :
        \E k \in 1..Len(high_energy_kws) : Contains(s, high_energy_kws[k])

\* (compound + 1) / 2 >= tenths / 10, with the compound in hundredths
ProbAtLeast(tenths) == sentiment_analyzer.compound + 100 >= 20 * tenths

EngagementIs(score, label) ==
    /\ EngagementResult.score = score
    /\ HasPrefix(EngagementResult.feedback, label \o W(" (Sentiment: "))

\* C11: score_engagement returns 15 "Very Engaging" only if the probability
\* (compound + 1) / 2 is at least 0.9 and the lowercased transcript holds a
\* high-energy keyword as a substring; with a probability of at least 0.9
\* and no keyword the probability becomes 0.88 and the result is 12
\* "Positive"; below 0.9 the result is 12 from 0.7, 9 from 0.5, 6 from 0.3
\* and 3 otherwise, whatever the keywords.
C11_EngagementBands ==
    ReturnedFrom("score_engagement") =>
        /\ EngagementResult.score = 15 => ProbAtLeast(9) /\ KeywordPresent
        /\ (ProbAtLeast(9) /\ KeywordPresent) =>
                EngagementIs(15, W("Very Engaging"))
        /\ (ProbAtLeast(9) /\ ~KeywordPresent) =>
                EngagementResult = Result(12, W("Positive (Sentiment: 0.88)"))
        /\ (~ProbAtLeast(9) /\ ProbAtLeast(7)) => EngagementIs(12, W("Positive"))
        /\ (~ProbAtLeast(7) /\ ProbAtLeast(5)) => EngagementIs(9, W("Neutral"))
        /\ (~ProbAtLeast(5) /\ ProbAtLeast(3)) =>
                EngagementIs(6, W("Slightly Negative"))
        /\ ~ProbAtLeast(3) => EngagementIs(3, W("Negative"))

C11_Witness ==
    /\ ReturnedFrom("score_engagement")
    /\ sentiment_analyzer.compound = 80
    /\ ~KeywordPresent
    /\ text # <<>>
    /\ EngagementResult = Result(12, W("Positive (Sentiment: 0.88)"))

=============================================================================
